---- MODULE Spec2Model ----
(***************************************************************************)
(* GoatTransport (src/goat.ts): one channel shared by concurrent unary and *)
(* streaming calls.  The transport's fields are the variables channel,     *)
(* outstanding, nextId and readError; readers holds the reads that         *)
(* startReader() has issued and that have not settled; calls holds, for    *)
(* every id allocated so far, the locals of its performUnary() or          *)
(* performStreaming() invocation and the position it is suspended at.      *)
(*                                                                         *)
(* One action is one run-to-completion job of the JavaScript event loop:   *)
(* a handler runs from the event that wakes it to its next await.  A       *)
(* promise being settled and the continuation that awaits it are two jobs. *)
(***************************************************************************)
EXTENDS Integers, Sequences, FiniteSets, TLC

VARIABLES channel, outstanding, nextId, readError, readers, doneCalls,
          calls, thrown

(***************************************************************************)
(* AwaitableQueue (src/util.ts): q and notify are its two fields; micro is *)
(* the microtask queue holding the continuations of its awaits; cons is    *)
(* the state of the consumers using it; pushed counts the items pushed;    *)
(* removed, regs and order log what popSync()/pop() returned, which        *)
(* nonEmpty() calls had to wait, and which of those completed.             *)
(***************************************************************************)
VARIABLES q, notify, micro, cons, pushed, removed, regs, order

tvars == <<channel, outstanding, nextId, readError, readers, doneCalls,
           calls, thrown>>

qvars == <<q, notify, micro, cons, pushed, removed, regs, order>>

vars == <<channel, outstanding, nextId, readError, readers, doneCalls,
          calls, thrown, qvars>>

(* ------------------------------ bounds -------------------------------- *)

\* ids the model allocates (nextId never exceeds it)
MaxCalls == 2
\* streaming calls among them
MaxStreams == 1
\* reset() calls; every reset installs a fresh channel object
MaxResets == 1
\* messages an input sequence of a streaming call produces at most
MaxInput == 1
\* messages the input sequence of a long upload produces at most
MaxUpload == 3
\* envelopes the response queue of a streaming call holds at most
MaxOut == 2
\* body envelopes the peer sends to one streaming call at most
MaxBodies == 2

\* items pushed on an AwaitableQueue at most
MaxPush == 3
\* consumers of an AwaitableQueue
MaxConsumers == 2
\* calls of popSync(), pop() and nonEmpty() each consumer makes at most
MaxOps == 3

Channels == 0..MaxResets
Ids == 0..(MaxCalls - 1)

(* ------------------------------ values -------------------------------- *)

\* rejection values a channel's read() may fail with; "undefined" is the
\* empty rejection (reject() called without a value)
ReadReasons == {"undefined", "ReadError"}
\* values the caller may pass as reset's reason; "undefined" is the omitted
\* argument
ResetReasons == {"undefined", "null", "ResetReason"}
\* signal.reason of an aborted signal
AbortReason == "AbortError"
\* what a failed channel.write() rejects with
WriteError == "WriteError"

NoEnv == [id |-> -1, body |-> 0, status |-> "none", trailer |-> FALSE, from |-> -1]

\* The envelopes a peer may deliver for an id: body 0 is an absent body,
\* status "err" a status with a non-zero code ("ok": code 0).
Shapes ==
    { [body |-> 0, status |-> "none", trailer |-> FALSE],
      [body |-> 1, status |-> "none", trailer |-> FALSE],
      [body |-> 0, status |-> "none", trailer |-> TRUE],
      [body |-> 1, status |-> "none", trailer |-> TRUE],
      [body |-> 0, status |-> "err",  trailer |-> FALSE],
      [body |-> 1, status |-> "err",  trailer |-> TRUE] }

\* The envelopes a peer may answer a unary call with: also a status with code
\* 0 ("ok") and a status with a non-zero code and an empty message ("errNoMsg").
UnaryShapes ==
    Shapes \cup
    { [body |-> 0, status |-> "ok",       trailer |-> FALSE],
      [body |-> 1, status |-> "ok",       trailer |-> TRUE],
      [body |-> 1, status |-> "errNoMsg", trailer |-> FALSE] }

\* ret.status && ret.status.code != 0
NonZero(status) ==
    status \in {"err", "errNoMsg"}

\* status.message of a response envelope
StatusMessage(status) ==
    IF status = "err" THEN "status" ELSE ""

\* a body envelope and a trailer envelope
PlainShapes ==
    {s \in Shapes : s.status = "none" /\ (s.body # 0) # s.trailer}

Envelope(id, s, ch) ==
    [id |-> id, body |-> s.body, status |-> s.status, trailer |-> s.trailer, from |-> ch]

\* An envelope handed to channel.write(): which header template it carries,
\* which optional fields are set, and the channel object it was handed to.
\* No envelope the transport builds sets status. msg is the input message a
\* body envelope of an upload serialises: the k-th message its input sequence
\* produced, 0 in every other envelope.
Written(hdr, body, trailer, reset, ch) ==
    [header |-> hdr, body |-> body, trailer |-> trailer, reset |-> reset,
     status |-> "none", msg |-> 0, ch |-> ch]

\* the single request envelope of a unary call: header with the user
\* headers, body and trailer
UnaryRequest(ch) ==
    Written("full", TRUE, TRUE, FALSE, ch)

\* the opening envelope of a streaming call: initialRequestHeader only
OpeningEnvelope(ch) ==
    Written("full", FALSE, FALSE, FALSE, ch)

\* the upload envelope built with initialRequestHeader
BodyEnvelopeInitialHeader(ch) ==
    Written("full", TRUE, FALSE, FALSE, ch)

\* an upload envelope: requestHeader (no user headers) and a body
BodyEnvelope(ch) ==
    Written("mid", TRUE, FALSE, FALSE, ch)

\* the upload trailer carrying a body as well
TrailerEnvelopeWithBody(ch) ==
    Written("mid", TRUE, TRUE, FALSE, ch)

\* the upload trailer: requestHeader and trailer: {}
TrailerEnvelope(ch) ==
    Written("mid", FALSE, TRUE, FALSE, ch)

\* the envelope cleanup() writes: requestHeader and reset: {type: "RST_STREAM"}
ResetEnvelope(ch) ==
    Written("mid", FALSE, FALSE, TRUE, ch)

\* JavaScript truthiness of a rejection value
Truthy(v) ==
    v \notin {"undefined", "null"}

\* reason ?? new ConnectError("reset", Code.Aborted)
ReasonOrDefault(reason) ==
    IF reason \in {"undefined", "null"} THEN "[aborted] reset" ELSE reason

\* new Error(this.readError): a fresh Error whose message is the reason's text
NewError(reason) ==
    [name |-> "Error", message |-> reason]

(* ----------------------- one-shot promise ----------------------------- *)

PendingPromise == [st |-> "pending", env |-> NoEnv, reason |-> ""]

\* a promise that every call of resolve()/reject() settles anew
SettleAgain(p, st, env, reason) ==
    [st |-> st, env |-> env, reason |-> reason]

\* resolve()/reject() of promiseWithResolvers(): only the first call settles
Settle(p, st, env, reason) ==
    IF p.st = "pending" THEN [st |-> st, env |-> env, reason |-> reason] ELSE p

(* --------------------- writable response queue ------------------------ *)

Item(err, env) == [err |-> err, env |-> env]

\* a response queue that hands out the newest item first
OutputWriteFront(c, item) ==
    IF c.closed THEN c ELSE [c EXCEPT !.output = <<item>> \o @]

\* outputIterable.write(x).catch(() => {}): queued unless already closed
OutputWrite(c, item) ==
    IF c.closed THEN c ELSE [c EXCEPT !.output = Append(@, item)]

(* --------------------------- call records ----------------------------- *)

NewCall(kind, aborted) ==
    [kind |-> kind,
     pc |-> "done",
     aborted |-> aborted,
     preAborted |-> aborted,
     listener |-> FALSE,
     promise |-> PendingPromise,
     outcome |-> [st |-> "none", reason |-> "", env |-> NoEnv],
     sent |-> << >>,
     resetWith |-> "none",
     fixedBefore |-> FALSE,
     up |-> "idle",
     output |-> << >>,
     closed |-> FALSE,
     gen |-> "none",
     cur |-> NoEnv,
     seqEnd |-> "none",
     yielded |-> << >>,
     routed |-> 0,
     serverHasClosedStream |-> FALSE,
     clientHasClosedStream |-> FALSE,
     cleanups |-> 0]

Failed(reason) == [st |-> "err", reason |-> reason, env |-> NoEnv]

\* body envelopes a streaming call has been handed so far
Received(c) ==
    Len(c.yielded) + Len(SelectSeq(c.output, LAMBDA it : it.err = "" /\ it.env.body # 0))

(* ------------------- entries of the outstanding map ------------------- *)

\* entry.resolve(rpc): the unary entry settles rpcPromise, the streaming
\* entry queues the envelope on the call's response queue.  The channel an
\* envelope was read from (from) is kept for unary responses only; routed
\* counts the body envelopes handed to a streaming entry.
ResolveEntry(c, env) ==
    IF c.kind = "unary"
    THEN [c EXCEPT !.promise = Settle(@, "resolved", env, "")]
    ELSE [OutputWrite(c, Item("", [env EXCEPT !.from = -1]))
            EXCEPT !.routed = IF env.body # 0 THEN @ + 1 ELSE @]

\* entry.reject(reason) reaching unary entries only
RejectUnaryOnly(c, reason) ==
    IF c.kind = "unary"
    THEN [c EXCEPT !.promise = Settle(@, "rejected", NoEnv, reason)]
    ELSE c

\* entry.reject(reason)
RejectEntry(c, reason) ==
    IF c.kind = "unary"
    THEN [c EXCEPT !.promise = Settle(@, "rejected", NoEnv, reason)]
    ELSE OutputWrite(c, Item(reason, NoEnv))

\* the loop leaving after the first entry
RejectFirst(cs, keys, reason) ==
    [i \in DOMAIN cs |->
        IF i \in keys /\ \A m \in keys : i <= m THEN RejectEntry(cs[i], reason) ELSE cs[i]]

\* for (const value of this.outstanding.values()) value.reject(reason)
RejectAll(cs, keys, reason) ==
    [i \in DOMAIN cs |-> IF i \in keys THEN RejectEntry(cs[i], reason) ELSE cs[i]]

\* routing by arrival order instead of by id: the oldest entry is resolved
LookupOldest(keys, id) ==
    IF keys = {} THEN {} ELSE {CHOOSE k \in keys : \A m \in keys : k <= m}

\* this.outstanding.get(Number(rpc.id)): the ids whose entry the envelope is
\* routed to (none when the id is not a key).  Ids stay far below 2^53, so
\* Number() of the 64-bit id is exact.
Lookup(keys, id) ==
    IF id \in keys THEN {id} ELSE {}

\* this.startReader(): one more read pending on the channel in use
StartReader(rs, ch) ==
    [rs EXCEPT ![ch] = @ + 1]

(* -------------------------- AwaitableQueue ---------------------------- *)

Consumers == 1..MaxConsumers

\* the continuation of the await in nonEmpty() of consumer c
Wake(c) == [job |-> "wake", c |-> c]

\* the continuation of await this.nonEmpty() in pop() of consumer c
Cont(c) == [job |-> "cont", c |-> c]

\* push() calling only the first resolver
WokenFirst(ns) ==
    [k \in 1..(IF ns = << >> THEN 0 ELSE 1) |-> Wake(ns[k])]

\* this.notify.forEach(v => v()): the continuations of the waiters, queued
\* in the order the resolvers are called
Woken(ns) ==
    [k \in 1..Len(ns) |-> Wake(ns[k])]

\* this.q.pop(): the item taken from the back
ShiftLast(s) ==
    IF s = << >> THEN [item |-> 0, rest |-> s]
    ELSE [item |-> s[Len(s)], rest |-> SubSeq(s, 1, Len(s) - 1)]

\* this.q.shift(): the front item (0: undefined) and what is left
Shift(s) ==
    IF s = << >> THEN [item |-> 0, rest |-> s]
    ELSE [item |-> Head(s), rest |-> Tail(s)]

\* get length()
Length == Len(q)

\* new AwaitableQueue(), no consumer using it yet
QueueInit ==
    /\ q = << >>
    /\ notify = << >>
    /\ micro = << >>
    /\ cons = [c \in Consumers |-> [op |-> "idle", ops |-> 0]]
    /\ pushed = 0
    /\ removed = << >>
    /\ regs = << >>
    /\ order = << >>

(* ------------------------------- Init --------------------------------- *)

Init ==
    /\ channel = 0
    /\ outstanding = {}
    /\ nextId = 0
    /\ readError = "undefined"
    /\ readers = StartReader([c \in Channels |-> 0], 0)
    /\ doneCalls = [c \in Channels |-> 0]
    /\ calls = << >>
    /\ thrown = "none"
    /\ QueueInit

Allocated == DOMAIN calls

AddCall(id, c) ==
    [i \in Allocated \cup {id} |-> IF i = id THEN c ELSE calls[i]]

(* ------------------------------ reset --------------------------------- *)

\* an item that ends the response sequence when the generator handles it
Terminal(item) ==
    item.err # "" \/ item.env.status = "err" \/ item.env.trailer

\* the outcome of the call is decided already: the unary promise is settled,
\* or an item that ends the response sequence is ahead in the queue
Fixed(c) ==
    IF c.kind = "unary" THEN c.promise.st # "pending"
    ELSE c.cur.trailer \/ \E k \in 1..Len(c.output) : Terminal(c.output[k])

\* done() invoked on the channel that was installed
DoneOnNew(dc, ch) ==
    [dc EXCEPT ![ch + 1] = @ + 1]

\* oldChannel.done(): one more done() on channel ch
Done(dc, ch) ==
    [dc EXCEPT ![ch] = @ + 1]

\* reset(newChannel, reason), newChannel a channel object not used before.
\* resetWith and fixedBefore record, for the calls the reset found in
\* outstanding, the reason it was given and whether their outcome was
\* decided before it.
Reset(reason) ==
    /\ channel < MaxResets
    /\ calls' = [i \in Allocated |->
                    IF i \in outstanding
                    THEN [RejectAll(calls, outstanding, ReasonOrDefault(reason))[i]
                            EXCEPT !.resetWith = reason,
                                   !.fixedBefore = Fixed(calls[i])]
                    ELSE calls[i]]
    /\ outstanding' = {}
    /\ channel' = channel + 1
    /\ readError' = "undefined"
    /\ readers' = StartReader(readers, channel + 1)
    /\ doneCalls' = Done(doneCalls, channel)
    /\ UNCHANGED <<nextId, thrown, qvars>>

(* ------------------------------ reader -------------------------------- *)

\* a read issued on channel ch resolves with env: the .then() handler
ReadResolved(ch, env) ==
    /\ readers[ch] > 0
    /\ \A i \in Lookup(outstanding, env.id) :
          calls[i].kind = "stream" =>
             /\ Len(calls[i].output) < MaxOut
             /\ env.body # 0 => Received(calls[i]) < MaxBodies
    /\ calls' = [i \in Allocated |->
                    IF i \in Lookup(outstanding, env.id)
                    THEN ResolveEntry(calls[i], env) ELSE calls[i]]
    /\ readers' = StartReader([readers EXCEPT ![ch] = @ - 1], channel)
    /\ UNCHANGED <<channel, outstanding, nextId, readError, doneCalls, thrown, qvars>>

\* the .catch() handler without its test `this.channel !== channel`
ReadRejectedUnchecked(ch, reason) ==
    /\ readers[ch] > 0
    /\ readers' = [readers EXCEPT ![ch] = @ - 1]
    /\ readError' = reason
    /\ calls' = RejectAll(calls, outstanding, reason)
    /\ outstanding' = {}
    /\ UNCHANGED <<channel, nextId, doneCalls, thrown, qvars>>

\* a read issued on channel ch rejects with reason: the .catch() handler
ReadRejected(ch, reason) ==
    /\ readers[ch] > 0
    /\ readers' = [readers EXCEPT ![ch] = @ - 1]
    /\ IF channel # ch
       THEN UNCHANGED <<readError, calls, outstanding>>
       ELSE /\ readError' = reason
            /\ calls' = RejectAll(calls, outstanding, reason)
            /\ outstanding' = {}
    /\ UNCHANGED <<channel, nextId, doneCalls, thrown, qvars>>

(* --------------------------- unary calls ------------------------------ *)

\* performUnary registering the entry before it looks at the signal
PerformUnaryRegisterFirst(aborted) ==
    /\ nextId < MaxCalls
    /\ nextId' = nextId + 1
    /\ calls' = AddCall(nextId, IF aborted
                                THEN [NewCall("unary", TRUE) EXCEPT !.outcome = Failed(AbortReason)]
                                ELSE [NewCall("unary", FALSE)
                                        EXCEPT !.pc = "write", !.listener = TRUE,
                                               !.sent = <<UnaryRequest(channel)>>])
    /\ outstanding' = outstanding \cup {nextId}
    /\ UNCHANGED <<channel, readError, readers, doneCalls, thrown, qvars>>

\* performUnary taking its id without the increment (this.nextId, not this.nextId++)
PerformUnaryReusedId(aborted) ==
    /\ nextId < MaxCalls
    /\ nextId' = nextId
    /\ IF aborted
       THEN /\ calls' = AddCall(nextId, [NewCall("unary", TRUE)
                                           EXCEPT !.outcome = Failed(AbortReason)])
            /\ UNCHANGED outstanding
       ELSE /\ calls' = AddCall(nextId, [NewCall("unary", FALSE)
                                           EXCEPT !.pc = "write",
                                                  !.listener = TRUE,
                                                  !.sent = <<UnaryRequest(channel)>>])
            /\ outstanding' = outstanding \cup {nextId}
    /\ UNCHANGED <<channel, readError, readers, doneCalls, thrown, qvars>>

\* performUnary up to its first await
PerformUnary(aborted) ==
    /\ nextId < MaxCalls
    /\ nextId' = nextId + 1
    /\ IF aborted
       THEN /\ calls' = AddCall(nextId, [NewCall("unary", TRUE)
                                           EXCEPT !.outcome = Failed(AbortReason)])
            /\ UNCHANGED outstanding
       ELSE /\ calls' = AddCall(nextId, [NewCall("unary", FALSE)
                                           EXCEPT !.pc = "write",
                                                  !.listener = TRUE,
                                                  !.sent = <<UnaryRequest(channel)>>])
            /\ outstanding' = outstanding \cup {nextId}
    /\ UNCHANGED <<channel, readError, readers, doneCalls, thrown, qvars>>

\* the read-error check made after the call has taken its id
RefuseWithId ==
    /\ nextId < MaxCalls
    /\ nextId' = nextId + 1
    /\ thrown' = NewError(readError).message
    /\ UNCHANGED <<channel, outstanding, readError, readers, doneCalls, calls, qvars>>

\* the read-error check that unary() and stream() start with
Refuse ==
    /\ thrown' = NewError(readError).message
    /\ UNCHANGED <<channel, outstanding, nextId, readError, readers, doneCalls, calls, qvars>>

\* unary(method, signal, ...), the signal aborted already or not
Unary(aborted) ==
    IF Truthy(readError) THEN Refuse ELSE PerformUnary(aborted)

\* ret.status?.message || "Unknown"
MessageOrUnknown(message) ==
    IF message = "" THEN "Unknown" ELSE message

\* the response mapping looking at the body before the status
MapResponseBodyFirst(env) ==
    IF env.body # 0 THEN [st |-> "ok", reason |-> "", env |-> env]
    ELSE IF NonZero(env.status)
         THEN [st |-> "err", reason |-> MessageOrUnknown(StatusMessage(env.status)), env |-> env]
    ELSE Failed("invalid response")

\* the response mapping at the end of performUnary: the error of a non-zero
\* status keeps the envelope (code and details) and takes its message
MapResponse(env) ==
    IF NonZero(env.status)
    THEN [st |-> "err", reason |-> MessageOrUnknown(StatusMessage(env.status)), env |-> env]
    ELSE IF env.body # 0 THEN [st |-> "ok", reason |-> "", env |-> env]
    ELSE Failed("invalid response")

\* await this.channel.write(...) resumes: the write succeeded
UnaryWriteDone(id) ==
    /\ id \in Allocated
    /\ calls[id].kind = "unary" /\ calls[id].pc = "write"
    /\ calls' = [calls EXCEPT ![id].pc = "await"]
    /\ UNCHANGED <<channel, outstanding, nextId, readError, readers, doneCalls, thrown, qvars>>

\* a failed write handled like a failed read: latched and fanned out
UnaryWriteFailedLatched(id) ==
    /\ id \in Allocated
    /\ calls[id].kind = "unary" /\ calls[id].pc = "write"
    /\ readError' = WriteError
    /\ calls' = [RejectAll(calls, outstanding, WriteError)
                   EXCEPT ![id].pc = "done", ![id].outcome = Failed(WriteError)]
    /\ outstanding' = {}
    /\ UNCHANGED <<channel, nextId, readers, doneCalls, thrown, qvars>>

\* await this.channel.write(...) throws: finally, then the error propagates
UnaryWriteFailed(id) ==
    /\ id \in Allocated
    /\ calls[id].kind = "unary" /\ calls[id].pc = "write"
    /\ calls' = [calls EXCEPT ![id].pc = "done", ![id].outcome = Failed(WriteError)]
    /\ outstanding' = outstanding \ {id}
    /\ UNCHANGED <<channel, nextId, readError, readers, doneCalls, thrown, qvars>>

\* await rpcPromise resuming for a resolved promise only
UnarySettledResolvedOnly(id) ==
    /\ id \in Allocated
    /\ calls[id].kind = "unary" /\ calls[id].pc = "await"
    /\ calls[id].promise.st = "resolved"
    /\ calls' = [calls EXCEPT ![id].pc = "done",
                              ![id].outcome = MapResponse(calls[id].promise.env)]
    /\ outstanding' = outstanding \ {id}
    /\ UNCHANGED <<channel, nextId, readError, readers, doneCalls, thrown, qvars>>

\* await rpcPromise resumes with the settled promise: finally, then the mapping
UnarySettled(id) ==
    /\ id \in Allocated
    /\ calls[id].kind = "unary" /\ calls[id].pc = "await"
    /\ calls[id].promise.st # "pending"
    /\ calls' = [calls EXCEPT
                    ![id].pc = "done",
                    ![id].outcome = IF calls[id].promise.st = "rejected"
                                    THEN Failed(calls[id].promise.reason)
                                    ELSE MapResponse(calls[id].promise.env)]
    /\ outstanding' = outstanding \ {id}
    /\ UNCHANGED <<channel, nextId, readError, readers, doneCalls, thrown, qvars>>

(* ------------------------- streaming calls ---------------------------- *)

Streams == {i \in Allocated : calls[i].kind = "stream"}

\* cleanup() closing the stream with a trailer and a status Aborted
CleanupAbortedTrailer(c, ch) ==
    [c EXCEPT !.closed = TRUE,
              !.output = << >>,
              !.sent = IF ~c.serverHasClosedStream \/ ~c.clientHasClosedStream
                       THEN Append(@, [TrailerEnvelope(ch) EXCEPT !.status = "Aborted"])
                       ELSE @,
              !.listener = FALSE,
              !.cleanups = @ + 1]

\* cleanup() testing !serverHasClosedStream && !clientHasClosedStream
CleanupBothOpen(c, ch) ==
    [c EXCEPT !.closed = TRUE,
              !.output = << >>,
              !.sent = IF ~c.serverHasClosedStream /\ ~c.clientHasClosedStream
                       THEN Append(@, ResetEnvelope(ch))
                       ELSE @,
              !.listener = FALSE,
              !.cleanups = @ + 1]

\* cleanup() of performStreaming, run while the transport uses channel ch
Cleanup(c, ch) ==
    [c EXCEPT !.closed = TRUE,
              !.output = << >>,
              !.sent = IF ~c.serverHasClosedStream \/ ~c.clientHasClosedStream
                       THEN Append(@, ResetEnvelope(ch))
                       ELSE @,
              !.listener = FALSE,
              !.cleanups = @ + 1]

\* performStreaming writing the opening envelope without the entry in outstanding
PerformStreamingUnregistered(aborted) ==
    /\ nextId < MaxCalls
    /\ Cardinality(Streams) < MaxStreams
    /\ nextId' = nextId + 1
    /\ calls' = AddCall(nextId, IF aborted
                                THEN [NewCall("stream", TRUE) EXCEPT !.outcome = Failed(AbortReason)]
                                ELSE [NewCall("stream", FALSE)
                                        EXCEPT !.pc = "open", !.listener = TRUE,
                                               !.sent = <<OpeningEnvelope(channel)>>])
    /\ UNCHANGED <<channel, outstanding, readError, readers, doneCalls, thrown, qvars>>

\* performStreaming up to its first await
PerformStreaming(aborted) ==
    /\ nextId < MaxCalls
    /\ Cardinality(Streams) < MaxStreams
    /\ nextId' = nextId + 1
    /\ IF aborted
       THEN /\ calls' = AddCall(nextId, [NewCall("stream", TRUE)
                                           EXCEPT !.outcome = Failed(AbortReason)])
            /\ UNCHANGED outstanding
       ELSE /\ calls' = AddCall(nextId,
                            [NewCall("stream", FALSE)
                               EXCEPT !.pc = "open",
                                      !.listener = TRUE,
                                      !.sent = <<OpeningEnvelope(channel)>>])
            /\ outstanding' = outstanding \cup {nextId}
    /\ UNCHANGED <<channel, readError, readers, doneCalls, thrown, qvars>>

\* stream(method, signal, ...), the signal aborted already or not
Stream(aborted) ==
    IF Truthy(readError) THEN Refuse ELSE PerformStreaming(aborted)

\* the opening write succeeded: the upload task starts and asks the input
\* sequence for its first message; the StreamResponse is returned
OpenDone(id) ==
    /\ id \in Streams /\ calls[id].pc = "open"
    /\ calls' = [calls EXCEPT ![id].pc = "active",
                              ![id].up = "next",
                              ![id].gen = "init",
                              ![id].outcome = [st |-> "ok", reason |-> "", env |-> NoEnv]]
    /\ UNCHANGED <<channel, outstanding, nextId, readError, readers, doneCalls, thrown, qvars>>

\* the opening write failed: catch (err) { cleanup(); throw err; }
OpenFailed(id) ==
    /\ id \in Streams /\ calls[id].pc = "open"
    /\ calls' = [calls EXCEPT ![id] = [Cleanup(@, channel)
                                         EXCEPT !.pc = "done",
                                                !.outcome = Failed(WriteError)]]
    /\ outstanding' = outstanding \ {id}
    /\ UNCHANGED <<channel, nextId, readError, readers, doneCalls, thrown, qvars>>

Bodies(c) == Len(SelectSeq(c.sent, LAMBDA w : w.body))

\* the input sequence, which has produced fewer than max messages, produces
\* its next message: the upload task writes a body envelope with it
InputYieldsWithin(id, max) ==
    /\ id \in Streams /\ calls[id].up = "next"
    /\ Bodies(calls[id]) < max
    /\ calls' = [calls EXCEPT
                    ![id].up = "wbody",
                    ![id].sent = Append(@, [BodyEnvelope(channel)
                                              EXCEPT !.msg = Bodies(calls[id]) + 1])]
    /\ UNCHANGED <<channel, outstanding, nextId, readError, readers, doneCalls, thrown, qvars>>

\* the input sequence produces a message
InputYields(id) ==
    InputYieldsWithin(id, MaxInput)

\* the input sequence completes: the upload task writes its trailer envelope
InputCompletes(id) ==
    /\ id \in Streams /\ calls[id].up = "next"
    /\ calls' = [calls EXCEPT
                    ![id].up = "wtrailer",
                    ![id].sent = Append(@, TrailerEnvelope(channel))]
    /\ UNCHANGED <<channel, outstanding, nextId, readError, readers, doneCalls, thrown, qvars>>

\* what the input sequence of a streaming call throws
InputError == "InputError"

\* new Error(`upload error: ${err}`)
UploadErrorOf(cause) ==
    "upload error: " \o cause

\* uploadPromise.catch without a handler body: nothing is queued
UploadErrorSwallowed(c, cause) ==
    [c EXCEPT !.up = "failed"]

\* uploadPromise.catch: the upload error is queued for the consumer
UploadError(c, cause) ==
    [OutputWrite(c, Item(UploadErrorOf(cause), NoEnv)) EXCEPT !.up = "failed"]

\* the input sequence throws
InputThrows(id) ==
    /\ id \in Streams /\ calls[id].up = "next"
    /\ calls' = [calls EXCEPT ![id] = UploadError(@, InputError)]
    /\ UNCHANGED <<channel, outstanding, nextId, readError, readers, doneCalls, thrown, qvars>>

\* the upload task asking its input for more after the trailer write
UploadWriteDoneLoops(id) ==
    /\ id \in Streams /\ calls[id].up \in {"wbody", "wtrailer"}
    /\ calls' = [calls EXCEPT
                    ![id].up = "next",
                    ![id].clientHasClosedStream = (calls[id].up = "wtrailer")]
    /\ UNCHANGED <<channel, outstanding, nextId, readError, readers, doneCalls, thrown, qvars>>

\* a body or trailer write of the upload task succeeded
UploadWriteDone(id) ==
    /\ id \in Streams /\ calls[id].up \in {"wbody", "wtrailer"}
    /\ calls' = [calls EXCEPT
                    ![id].up = IF @ = "wbody" THEN "next" ELSE "done",
                    ![id].clientHasClosedStream = (calls[id].up = "wtrailer")]
    /\ UNCHANGED <<channel, outstanding, nextId, readError, readers, doneCalls, thrown, qvars>>

\* a body or trailer write of the upload task failed
UploadWriteFailed(id) ==
    /\ id \in Streams /\ calls[id].up \in {"wbody", "wtrailer"}
    /\ calls' = [calls EXCEPT ![id] = UploadError(@, WriteError)]
    /\ UNCHANGED <<channel, outstanding, nextId, readError, readers, doneCalls, thrown, qvars>>

\* the response generator ends (return or throw): finally { cleanup(); }
Finish(c, end, ch) ==
    [Cleanup(c, ch) EXCEPT !.gen = "done", !.seqEnd = end]

\* the generator's loop throwing on a non-zero status without
\* serverHasClosedStream = true
HandleStatusLeavesOpen(c, item, ch) ==
    IF item.err # "" THEN Finish(c, item.err, ch)
    ELSE IF item.env.status = "err" THEN Finish(c, "status", ch)
    ELSE IF item.env.body # 0
         THEN [c EXCEPT !.gen = "yield", !.cur = item.env,
                        !.yielded = Append(@, item.env.body)]
    ELSE IF item.env.trailer
         THEN Finish([c EXCEPT !.serverHasClosedStream = TRUE], "normal", ch)
    ELSE c

\* the generator's loop testing the trailer before the body
HandleTrailerFirst(c, item, ch) ==
    IF item.err # "" THEN Finish(c, item.err, ch)
    ELSE IF item.env.status = "err"
         THEN Finish([c EXCEPT !.serverHasClosedStream = TRUE], "status", ch)
    ELSE IF item.env.trailer
         THEN Finish([c EXCEPT !.serverHasClosedStream = TRUE], "normal", ch)
    ELSE IF item.env.body # 0
         THEN [c EXCEPT !.gen = "yield", !.cur = item.env,
                        !.yielded = Append(@, item.env.body)]
    ELSE c

\* one iteration of the generator's loop on the item taken from output
Handle(c, item, ch) ==
    IF item.err # "" THEN Finish(c, item.err, ch)
    ELSE IF item.env.status = "err"
         THEN Finish([c EXCEPT !.serverHasClosedStream = TRUE], "status", ch)
    ELSE IF item.env.body # 0
         THEN [c EXCEPT !.gen = "yield", !.cur = item.env,
                        !.yielded = Append(@, item.env.body)]
    ELSE IF item.env.trailer
         THEN Finish([c EXCEPT !.serverHasClosedStream = TRUE], "normal", ch)
    ELSE c

\* the generator resumes after its yield: the trailer check on the same envelope
AfterYield(c, ch) ==
    IF c.cur.trailer
    THEN Finish([c EXCEPT !.serverHasClosedStream = TRUE, !.cur = NoEnv], "normal", ch)
    ELSE [c EXCEPT !.gen = "wait", !.cur = NoEnv]

\* the consumer asks the response sequence for its next message
Pull(id) ==
    /\ id \in Streams /\ calls[id].gen \in {"init", "yield"}
    /\ calls' = [calls EXCEPT ![id] = IF @.gen = "init"
                                      THEN [@ EXCEPT !.gen = "wait"]
                                      ELSE AfterYield(@, channel)]
    /\ outstanding' = IF calls'[id].gen = "done" THEN outstanding \ {id} ELSE outstanding
    /\ UNCHANGED <<channel, nextId, readError, readers, doneCalls, thrown, qvars>>

\* the generator, waiting in for await, receives the next item of output
Consume(id) ==
    /\ id \in Streams /\ calls[id].gen = "wait"
    /\ calls[id].output # << >>
    /\ calls' = [calls EXCEPT ![id] =
                    Handle([@ EXCEPT !.output = Tail(@)], Head(calls[id].output), channel)]
    /\ outstanding' = IF calls'[id].gen = "done" THEN outstanding \ {id} ELSE outstanding
    /\ UNCHANGED <<channel, nextId, readError, readers, doneCalls, thrown, qvars>>

\* The consumer leaves its loop (break): return() on the response sequence.
\* A generator suspended at its yield runs its finally block; a generator
\* that was never started ends without running any of its code.
Return(id) ==
    /\ id \in Streams /\ calls[id].gen \in {"init", "yield"}
    /\ calls' = [calls EXCEPT ![id] =
                    IF @.gen = "yield"
                    THEN Finish([@ EXCEPT !.cur = NoEnv], "return", channel)
                    ELSE [@ EXCEPT !.gen = "done", !.seqEnd = "return"]]
    /\ outstanding' = IF calls[id].gen = "yield" THEN outstanding \ {id} ELSE outstanding
    /\ UNCHANGED <<channel, nextId, readError, readers, doneCalls, thrown, qvars>>

(* ------------------------------ abort --------------------------------- *)

\* the abort listener telling the peer with a reset envelope
OnAbortNotifyPeer(c) ==
    IF ~c.listener THEN c
    ELSE [RejectEntry(c, AbortReason) EXCEPT !.sent = Append(@, ResetEnvelope(0))]

\* notifyAbort() discarding what the response queue holds, so that the abort
\* error is the next item
OnAbortClearsQueue(c) ==
    IF ~c.listener THEN c
    ELSE IF c.kind = "unary" \/ c.closed THEN RejectEntry(c, AbortReason)
    ELSE [c EXCEPT !.output = <<Item(AbortReason, NoEnv)>>]

\* the abort listener of a call: rpcReject(reason) or notifyAbort()
OnAbort(c) ==
    IF ~c.listener THEN c ELSE RejectEntry(c, AbortReason)

\* the driver of the call has not unwound yet
Live(c) ==
    IF c.kind = "unary" THEN c.pc # "done" ELSE c.pc # "done" /\ c.cleanups = 0

\* the signal of call id is aborted while the call is running
Abort(id) ==
    /\ id \in Allocated /\ ~calls[id].aborted /\ Live(calls[id])
    /\ calls' = [calls EXCEPT ![id] = [OnAbort(@) EXCEPT !.aborted = TRUE]]
    /\ UNCHANGED <<channel, outstanding, nextId, readError, readers, doneCalls, thrown, qvars>>

(* ---------------------- AwaitableQueue: steps ------------------------- *)

\* consumer c is between two calls and has calls left
Idle(c) ==
    cons[c].op = "idle" /\ cons[c].ops < MaxOps

\* push(item): the item is appended, every resolver in notify is called and
\* notify is emptied
Push ==
    /\ pushed < MaxPush
    /\ pushed' = pushed + 1
    /\ q' = Append(q, pushed + 1)
    /\ micro' = micro \o Woken(notify)
    /\ notify' = << >>
    /\ UNCHANGED <<cons, removed, regs, order, tvars>>

\* popSync() called by consumer c
PopSync(c) ==
    /\ Idle(c)
    /\ q' = Shift(q).rest
    /\ removed' = Append(removed, [by |-> c, via |-> "popSync", item |-> Shift(q).item])
    /\ cons' = [cons EXCEPT ![c].ops = @ + 1]
    /\ UNCHANGED <<notify, micro, pushed, regs, order, tvars>>

\* nonEmpty() called by consumer c: it returns at once when the queue holds
\* an item, else it registers its resolver and waits
NonEmpty(c) ==
    /\ Idle(c)
    /\ IF Length = 0
       THEN /\ notify' = Append(notify, c)
            /\ regs' = Append(regs, c)
            /\ cons' = [cons EXCEPT ![c].op = "nonEmpty", ![c].ops = @ + 1]
       ELSE /\ cons' = [cons EXCEPT ![c].ops = @ + 1]
            /\ UNCHANGED <<notify, regs>>
    /\ UNCHANGED <<q, micro, pushed, removed, order, tvars>>

\* pop() called by consumer c: it runs nonEmpty() up to its first await, or
\* to its end, and then awaits the promise nonEmpty() returned
Pop(c) ==
    /\ Idle(c)
    /\ cons' = [cons EXCEPT ![c].op = "pop", ![c].ops = @ + 1]
    /\ IF Length = 0
       THEN notify' = Append(notify, c) /\ UNCHANGED micro
       ELSE micro' = Append(micro, Cont(c)) /\ UNCHANGED notify
    /\ UNCHANGED <<q, pushed, removed, regs, order, tvars>>

\* nonEmpty() with `if` in place of `while`: a woken waiter returns without
\* testing the length again
ResumeOnce ==
    /\ micro # << >> /\ Head(micro).job = "wake"
    /\ IF cons[Head(micro).c].op = "nonEmpty"
       THEN /\ cons' = [cons EXCEPT ![Head(micro).c].op = "idle"]
            /\ order' = Append(order, Head(micro).c)
            /\ micro' = Tail(micro)
       ELSE /\ micro' = Append(Tail(micro), Cont(Head(micro).c))
            /\ UNCHANGED <<cons, order>>
    /\ UNCHANGED <<q, notify, pushed, removed, regs, tvars>>

\* the waiter at the head of the microtask queue resumes in nonEmpty(): the
\* loop tests the length again, and waits again or returns
Resume ==
    /\ micro # << >> /\ Head(micro).job = "wake"
    /\ IF Length = 0
       THEN /\ notify' = Append(notify, Head(micro).c)
            /\ micro' = Tail(micro)
            /\ UNCHANGED <<cons, order>>
       ELSE IF cons[Head(micro).c].op = "nonEmpty"
            THEN /\ cons' = [cons EXCEPT ![Head(micro).c].op = "idle"]
                 /\ order' = Append(order, Head(micro).c)
                 /\ micro' = Tail(micro)
                 /\ UNCHANGED notify
            ELSE /\ micro' = Append(Tail(micro), Cont(Head(micro).c))
                 /\ UNCHANGED <<notify, cons, order>>
    /\ UNCHANGED <<q, pushed, removed, regs, tvars>>

\* pop() of the consumer at the head of the microtask queue resumes after
\* await this.nonEmpty(): return this.popSync()!
PopReturns ==
    /\ micro # << >> /\ Head(micro).job = "cont"
    /\ q' = Shift(q).rest
    /\ removed' = Append(removed, [by |-> Head(micro).c, via |-> "pop",
                                    item |-> Shift(q).item])
    /\ cons' = [cons EXCEPT ![Head(micro).c].op = "idle"]
    /\ micro' = Tail(micro)
    /\ UNCHANGED <<notify, pushed, regs, order, tvars>>

(* --------------------------- specification ---------------------------- *)

\* What the peer sends with shape s for id: the k-th body envelope it sends
\* to a streaming call carries the message k.
Emitted(id, s) ==
    [s EXCEPT !.body = IF s.body = 0 THEN 0
                       ELSE IF id \in Streams THEN calls[id].routed + 1
                       ELSE s.body]

\* reset(newChannel, reason) called by the application, with any reason
ResetStep ==
    \E reason \in ResetReasons : Reset(reason)

\* a pending read resolves with an envelope of the peer, drawn from shapes
AnswerStep(shapes) ==
    \E ch \in Channels, id \in Ids, s \in shapes :
        ReadResolved(ch, Envelope(id, Emitted(id, s), ch))

\* a pending read rejects
FailStep ==
    \E ch \in Channels, reason \in ReadReasons : ReadRejected(ch, reason)

\* the signal of a call is aborted
AbortStep ==
    \E id \in Ids : Abort(id)

\* reset, the reader's two handlers and the abort of a signal; the peer's
\* envelopes are drawn from shapes
TransportStep(shapes) ==
    \/ ResetStep
    \/ AnswerStep(shapes)
    \/ FailStep
    \/ AbortStep

UnaryStep ==
    \/ \E aborted \in BOOLEAN : Unary(aborted)
    \/ \E id \in Ids : UnaryWriteDone(id)
    \/ \E id \in Ids : UnaryWriteFailed(id)
    \/ \E id \in Ids : UnarySettled(id)

\* a streaming call and its response consumer
ConsumerStep ==
    \/ \E aborted \in BOOLEAN : Stream(aborted)
    \/ \E id \in Ids : OpenDone(id)
    \/ \E id \in Ids : OpenFailed(id)
    \/ \E id \in Ids : Pull(id)
    \/ \E id \in Ids : Consume(id)

\* the upload task of a streaming call
UploadStep ==
    \/ \E id \in Ids : InputYields(id)
    \/ \E id \in Ids : InputCompletes(id)
    \/ \E id \in Ids : InputThrows(id)
    \/ \E id \in Ids : UploadWriteDone(id)
    \/ \E id \in Ids : UploadWriteFailed(id)

\* the consumer of a streaming call stops before the sequence has ended
StopStep ==
    \E id \in Ids : Return(id)

\* the upload task of a streaming call whose input sequence produces up to
\* MaxUpload messages
LongUploadStep ==
    \/ \E id \in Ids : InputYieldsWithin(id, MaxUpload)
    \/ \E id \in Ids : InputCompletes(id)
    \/ \E id \in Ids : InputThrows(id)
    \/ \E id \in Ids : UploadWriteDone(id)
    \/ \E id \in Ids : UploadWriteFailed(id)

\* reset and the abort of a signal, with a peer that sends nothing
QuietStep ==
    \/ ResetStep
    \/ AbortStep

\* unary calls, answered with body envelopes and trailer envelopes, on a
\* transport that is reset and whose reads fail
NextUnaryPlain == TransportStep(PlainShapes) \/ UnaryStep

\* unary calls, answered with envelopes of every shape, on a transport that
\* is reset and whose reads do not fail
NextUnaryReset == ResetStep \/ AnswerStep(UnaryShapes) \/ AbortStep \/ UnaryStep

\* streaming calls on a transport that keeps its channel
NextStreamSteady ==
    AnswerStep(Shapes) \/ FailStep \/ AbortStep \/ ConsumerStep \/ UploadStep \/ StopStep

\* streaming calls on a transport that is reset and whose reads do not fail
NextStreamReset ==
    ResetStep \/ AnswerStep(Shapes) \/ AbortStep \/ ConsumerStep \/ UploadStep \/ StopStep

\* streaming calls with longer uploads and a peer that stays silent
NextUpload == QuietStep \/ ConsumerStep \/ LongUploadStep \/ StopStep

\* unary and streaming calls side by side with a peer that stays silent: the
\* transport is reset and its reads fail, the input sequences of the
\* streaming calls stay blocked
NextMixedSilent == ResetStep \/ FailStep \/ AbortStep \/ UnaryStep \/ ConsumerStep

\* unary and streaming calls side by side on a transport that is reset and
\* whose reads do not fail: the peer sends body envelopes and trailer
\* envelopes, the input sequences of the streaming calls stay blocked
NextMixedReset ==
    ResetStep \/ AnswerStep(PlainShapes) \/ AbortStep \/ UnaryStep \/ ConsumerStep

\* every call, every envelope shape, resets and failing reads together
Next == TransportStep(Shapes) \/ UnaryStep \/ ConsumerStep \/ UploadStep \/ StopStep

\* an AwaitableQueue used by the consumers cs
QueueStep(cs) ==
    \/ Push
    \/ \E c \in cs : PopSync(c)
    \/ \E c \in cs : NonEmpty(c)
    \/ \E c \in cs : Pop(c)
    \/ Resume
    \/ PopReturns

\* several consumers
NextQueue == QueueStep(Consumers)

\* one consumer
NextFifo == QueueStep({1})

SpecQueue == Init /\ [][NextQueue]_vars

SpecFifo == Init /\ [][NextFifo]_vars

SpecUnaryPlain == Init /\ [][NextUnaryPlain]_vars

SpecUnaryReset == Init /\ [][NextUnaryReset]_vars

SpecStreamSteady == Init /\ [][NextStreamSteady]_vars

SpecStreamReset == Init /\ [][NextStreamReset]_vars

SpecMixedSilent == Init /\ [][NextMixedSilent]_vars

SpecMixedReset == Init /\ [][NextMixedReset]_vars

SpecUpload == Init /\ [][NextUpload]_vars

\* Unary calls that the peer answers with body envelopes and trailer
\* envelopes, with the event loop running the continuation of every settled
\* promise: a call that awaits a settled rpcPromise resumes.
SpecUnaryFair ==
    /\ Init /\ [][NextUnaryPlain]_vars
    /\ \A id \in Ids : WF_vars(UnarySettled(id))

Spec == Init /\ [][Next]_vars

(* ------------------------------- claims ------------------------------- *)

Unaries == {i \in Allocated : calls[i].kind = "unary"}

Rsts(c) == Len(SelectSeq(c.sent, LAMBDA w : w.reset))

\* C1: a unary call is resolved only by an envelope that carries the call's
\* own id: the envelope held by its promise, and the envelope its result is
\* mapped from, never carry another call's id.
C1_NoCrossTalk ==
    \A i \in Unaries :
        /\ calls[i].promise.st = "resolved" => calls[i].promise.env.id = i
        /\ calls[i].outcome.env # NoEnv => calls[i].outcome.env.id = i

\* two unary calls written to the same channel, the later one answered while
\* the earlier one is still waiting for its response
C1_Witness ==
    \E i, j \in Unaries :
        /\ i < j
        /\ calls[i].sent # << >> /\ calls[j].sent # << >>
        /\ calls[i].sent[1].ch = calls[j].sent[1].ch
        /\ calls[i].pc = "await" /\ calls[i].promise.st = "pending"
        /\ calls[j].pc = "done" /\ calls[j].outcome.st = "ok"

\* C2: once a read failure is latched (readError holds a truthy reason), every
\* step that is not a reset leaves readError as it is and allocates no id, and
\* an invocation is refused with an error carrying the latched reason.
C2_LatchedUntilReset ==
    [][Truthy(readError) =>
          /\ channel' = channel => readError' = readError
          /\ nextId' = nextId
          /\ outstanding' \subseteq outstanding
          /\ thrown' # thrown => thrown' = readError]_vars

C3_Claimed(reason) ==
    IF reason = "undefined" THEN "[aborted] reset" ELSE reason

C3_Expected(reason) ==
    IF reason \in {"undefined", "null"} THEN "[aborted] reset" ELSE reason

\* C3 as stated: every call that reset finds in outstanding fails with the
\* reason reset was given (the Aborted 'reset' error when it is omitted): a
\* unary call's promise settles with it, a streaming call's response sequence
\* ends with it; and reset leaves outstanding empty.
C3_EveryEntryFailsWithReason ==
    /\ [](\A i \in Allocated :
            calls[i].resetWith # "none" =>
               /\ (calls[i].kind = "unary" /\ calls[i].pc = "done")
                     => calls[i].outcome = Failed(C3_Claimed(calls[i].resetWith))
               /\ (calls[i].kind = "stream" /\ calls[i].gen = "done")
                     => calls[i].seqEnd = C3_Claimed(calls[i].resetWith))
    /\ [][channel' # channel => outstanding' = {}]_vars

\* C3 amended: a call that reset finds in outstanding fails with the reason
\* (the Aborted 'reset' error when the reason is omitted or null) unless its
\* outcome was decided before the reset or, for a unary call, its request
\* write fails afterwards; and reset leaves outstanding empty.
C3_UndecidedEntriesFailWithReason ==
    /\ [](\A i \in Allocated :
            (calls[i].resetWith # "none" /\ ~calls[i].fixedBefore) =>
               /\ (calls[i].kind = "unary" /\ calls[i].pc = "done"
                     /\ calls[i].outcome # Failed(WriteError))
                     => calls[i].outcome = Failed(C3_Expected(calls[i].resetWith))
               /\ (calls[i].kind = "stream" /\ calls[i].gen = "done")
                     => calls[i].seqEnd = C3_Expected(calls[i].resetWith))
    /\ [][channel' # channel => outstanding' = {}]_vars

\* a unary call and a streaming call that one reset found in outstanding,
\* both ended with the reason the reset was given
C3_Witness ==
    \E i \in Unaries, j \in Streams :
        /\ calls[i].resetWith = "ResetReason" /\ calls[j].resetWith = "ResetReason"
        /\ calls[i].pc = "done" /\ calls[i].outcome = Failed("ResetReason")
        /\ calls[j].gen = "done" /\ calls[j].seqEnd = "ResetReason"
        /\ outstanding = {}

\* C4: a unary call started after a reset is written to the channel the reset
\* installed and resolved only by an envelope read from that channel; and the
\* reset leaves the latch clear.
C4_AnsweredFromNewChannelOnly ==
    /\ [](\A i \in Unaries :
            (calls[i].sent # << >> /\ calls[i].sent[1].ch > 0
               /\ calls[i].promise.st = "resolved")
               => calls[i].promise.env.from = calls[i].sent[1].ch)
    /\ [][channel' # channel => readError' = "undefined"]_vars

C6_NoResetOnNormalEnd ==
    [][\A i \in Streams :
          (/\ calls[i].gen # "done"
           /\ calls'[i].gen = "done" /\ calls'[i].seqEnd = "normal"
           /\ \E k \in 1..Len(calls[i].sent) : calls[i].sent[k].trailer)
          => Rsts(calls'[i]) = 0]_vars

\* C7: the first envelope of a streaming call carries the user headers and no
\* later envelope of the call does; a call refused by the abort pre-check
\* writes nothing.
C7_HeadersOnOpeningEnvelopeOnly ==
    \A i \in Streams :
        /\ calls[i].preAborted => calls[i].sent = << >>
        /\ ~calls[i].preAborted =>
              /\ calls[i].sent # << >>
              /\ calls[i].sent[1] = [OpeningEnvelope(0) EXCEPT !.ch = calls[i].sent[1].ch]
              /\ \A k \in 2..Len(calls[i].sent) : calls[i].sent[k].header = "mid"

\* a streaming call that has written its opening, a body, its trailer and a
\* reset envelope
C7_Witness ==
    \E i \in Streams :
        /\ Len(calls[i].sent) >= 4
        /\ \E k \in 2..Len(calls[i].sent) : calls[i].sent[k].body
        /\ \E k \in 2..Len(calls[i].sent) : calls[i].sent[k].trailer
        /\ \E k \in 2..Len(calls[i].sent) : calls[i].sent[k].reset

\* C8: when a read on the channel in use fails with reason r, readError
\* becomes r, outstanding becomes empty, reject(r) reaches every entry that
\* was in outstanding (a pending unary promise is rejected with r, r is queued
\* on a streaming call's response queue), and no read is issued in its place.
C8_ReadFailureFansOut ==
    [][\A r \in ReadReasons :
          ReadRejected(channel, r) =>
             /\ readError' = r
             /\ outstanding' = {}
             /\ readers'[channel] = readers[channel] - 1
             /\ \A i \in outstanding :
                   IF calls[i].kind = "unary"
                   THEN calls'[i].promise =
                           IF calls[i].promise.st = "pending"
                           THEN [st |-> "rejected", env |-> NoEnv, reason |-> r]
                           ELSE calls[i].promise
                   ELSE calls'[i].output = Append(calls[i].output, Item(r, NoEnv))]_vars

\* a latched read failure that reached a unary call and a streaming call
C8_Witness ==
    /\ readError = "ReadError" /\ outstanding = {} /\ readers[channel] = 0
    /\ \E i \in Unaries : calls[i].promise = [st |-> "rejected", env |-> NoEnv,
                                              reason |-> "ReadError"]
    /\ \E j \in Streams : calls[j].seqEnd = "ReadError"

\* C9: an abort that finds a unary call's promise pending rejects it with the
\* signal's reason and writes nothing; once the call has unwound (its request
\* write having succeeded) it has failed with that reason, its id is not in
\* outstanding, and the request is the only envelope it ever wrote.
C9_UnaryAbort ==
    /\ [][\A i \in Unaries :
            (~calls[i].aborted /\ calls'[i].aborted /\ calls[i].promise.st = "pending")
               => /\ calls'[i].promise = [st |-> "rejected", env |-> NoEnv,
                                         reason |-> AbortReason]
                  /\ \A j \in Allocated : calls'[j].sent = calls[j].sent]_vars
    /\ [](\A i \in Unaries :
            (/\ calls[i].pc = "done"
             /\ calls[i].promise = [st |-> "rejected", env |-> NoEnv, reason |-> AbortReason]
             /\ calls[i].outcome # Failed(WriteError))
            => /\ calls[i].outcome = Failed(AbortReason)
               /\ i \notin outstanding
               /\ calls[i].sent = <<UnaryRequest(calls[i].sent[1].ch)>>)

\* a unary call aborted while it waited for its response, unwound
C9_Witness ==
    \E i \in Unaries :
        /\ ~calls[i].preAborted /\ calls[i].aborted
        /\ calls[i].pc = "done" /\ calls[i].outcome = Failed(AbortReason)
        /\ Len(calls[i].sent) = 1 /\ i \notin outstanding

\* C10: a call started with an aborted signal fails with the abort reason, is
\* never a key of outstanding, never runs cleanup and never writes an envelope.
C10_PreAbortedCallLeavesNoTrace ==
    \A i \in Allocated :
        calls[i].preAborted =>
           /\ calls[i].outcome = Failed(AbortReason)
           /\ i \notin outstanding
           /\ calls[i].sent = << >>
           /\ calls[i].cleanups = 0

\* a unary call and a streaming call, both started with an aborted signal
C10_Witness ==
    /\ \E i \in Unaries : calls[i].preAborted /\ calls[i].outcome = Failed(AbortReason)
    /\ \E j \in Streams : calls[j].preAborted /\ calls[j].outcome = Failed(AbortReason)

\* the response envelope a finished unary call was resolved with
C11_Routed(i) ==
    calls[i].promise.env

\* C11 as stated: a unary call resolved with an envelope, its request write
\* having succeeded, fails with an error
\* carrying the status's code, message and details when the status has a
\* non-zero code, also when a body is present; otherwise it returns the
\* envelope's body, headers and trailers when a body is present; otherwise
\* it fails with 'invalid response'.
C11_OutcomeOfEnvelope ==
    \A i \in Unaries :
        (calls[i].pc = "done" /\ calls[i].promise.st = "resolved"
           /\ calls[i].outcome # Failed(WriteError)) =>
            IF NonZero(C11_Routed(i).status)
            THEN calls[i].outcome = [st |-> "err",
                                     reason |-> StatusMessage(C11_Routed(i).status),
                                     env |-> C11_Routed(i)]
            ELSE IF C11_Routed(i).body # 0
                 THEN calls[i].outcome = [st |-> "ok", reason |-> "", env |-> C11_Routed(i)]
            ELSE calls[i].outcome = Failed("invalid response")

\* C11 amended: as stated, except that the error of a non-zero status carries
\* the message 'Unknown' when the status's message is empty.
C11_OutcomeOfEnvelopeOrUnknown ==
    \A i \in Unaries :
        (calls[i].pc = "done" /\ calls[i].promise.st = "resolved"
           /\ calls[i].outcome # Failed(WriteError)) =>
            IF NonZero(C11_Routed(i).status)
            THEN calls[i].outcome =
                    [st |-> "err",
                     reason |-> IF StatusMessage(C11_Routed(i).status) = ""
                                THEN "Unknown"
                                ELSE StatusMessage(C11_Routed(i).status),
                     env |-> C11_Routed(i)]
            ELSE IF C11_Routed(i).body # 0
                 THEN calls[i].outcome = [st |-> "ok", reason |-> "", env |-> C11_Routed(i)]
            ELSE calls[i].outcome = Failed("invalid response")

\* one unary call failed on a non-zero status that came with a body, another
\* failed with 'invalid response' on a status with code 0 and no body
C11_Witness ==
    \E i, j \in Unaries :
        /\ calls[i].pc = "done" /\ calls[i].promise.st = "resolved"
        /\ calls[i].promise.env.status = "err" /\ calls[i].promise.env.body # 0
        /\ calls[i].outcome.st = "err" /\ calls[i].outcome.reason = "status"
        /\ calls[j].pc = "done" /\ calls[j].promise.st = "resolved"
        /\ calls[j].promise.env.status = "ok" /\ calls[j].promise.env.body = 0
        /\ calls[j].outcome = Failed("invalid response")

\* the upload errors a response sequence can end with
C12_UploadErrors ==
    {UploadErrorOf(InputError), UploadErrorOf(WriteError)}

\* C12 as stated: when the upload task of a streaming call has failed, the
\* response sequence, once it has terminated, has terminated with the upload
\* error, and one reset envelope has been written for the call.
C12_ConsumerEndsWithUploadError ==
    \A i \in Streams :
        (calls[i].up = "failed" /\ calls[i].gen = "done") =>
            /\ calls[i].seqEnd \in C12_UploadErrors
            /\ Rsts(calls[i]) = 1

\* C12 amended: the step in which the upload task fails queues the upload
\* error with its cause on the response queue unless the queue is closed; the
\* consumer that receives it terminates with it, and cleanup writes a reset
\* envelope in that step; a call whose upload failed and whose cleanup has
\* run has written exactly one reset envelope.
C12_UploadErrorQueuedThenRaised ==
    /\ [][\A i \in Streams :
            /\ (calls[i].up = "next" /\ calls'[i].up = "failed" /\ ~calls[i].closed)
                  => calls'[i].output = Append(calls[i].output,
                                               Item(UploadErrorOf(InputError), NoEnv))
            /\ (calls[i].up \in {"wbody", "wtrailer"} /\ calls'[i].up = "failed"
                   /\ ~calls[i].closed)
                  => calls'[i].output = Append(calls[i].output,
                                               Item(UploadErrorOf(WriteError), NoEnv))
            /\ (calls[i].gen = "wait" /\ calls[i].output # << >>
                   /\ Head(calls[i].output).err \in C12_UploadErrors
                   /\ calls'[i].gen # "wait")
                  => /\ calls'[i].gen = "done"
                     /\ calls'[i].seqEnd = Head(calls[i].output).err
                     /\ Rsts(calls[i]) = 0 /\ Rsts(calls'[i]) = 1]_vars
    /\ [](\A i \in Streams :
            (calls[i].up = "failed" /\ calls[i].cleanups > 0) => Rsts(calls[i]) = 1)

\* a streaming call whose body write failed: the consumer ended with the
\* upload error and the reset envelope is the last envelope written
C12_Witness ==
    \E i \in Streams :
        /\ calls[i].up = "failed" /\ calls[i].gen = "done"
        /\ calls[i].seqEnd = UploadErrorOf(WriteError)
        /\ Bodies(calls[i]) = 1
        /\ calls[i].sent[Len(calls[i].sent)].reset /\ Rsts(calls[i]) = 1

\* the upload of call i wrote its opening envelope, one body envelope and its
\* trailer envelope, in this order, before anything else
C13_Uploaded(c) ==
    /\ Len(c.sent) >= 3
    /\ c.sent[2].body /\ ~c.sent[2].trailer
    /\ c.sent[3].trailer /\ ~c.sent[3].body /\ c.sent[3].status = "none"

\* an abort of a running streaming call, the peer having sent no trailer and
\* no status, queues the abort error and writes nothing; the consumer that
\* receives the abort error fails with it
C13_AbortFailsTheCall ==
    [][\A i \in Streams :
          /\ (~calls[i].aborted /\ calls'[i].aborted /\ ~calls[i].closed)
                => /\ calls'[i].output = Append(calls[i].output, Item(AbortReason, NoEnv))
                   /\ calls'[i].sent = calls[i].sent
          /\ (calls[i].gen = "wait" /\ calls[i].output # << >>
                 /\ Head(calls[i].output).err = AbortReason /\ calls'[i].gen # "wait")
                => calls'[i].gen = "done" /\ calls'[i].seqEnd = AbortReason]_vars

C14_TrailerIsLastEnvelope ==
    /\ [][\A i \in Streams :
            (calls[i].gen = "done" /\ Bodies(calls[i]) = 1
               /\ calls[i].up = "next" /\ calls'[i].up = "wtrailer")
            => calls'[i].sent = Append(calls[i].sent, TrailerEnvelope(channel))]_vars
    /\ [](\A i \in Streams : \A k \in 1..Len(calls[i].sent) :
            (calls[i].sent[k].trailer /\ \E j \in 1..(k - 1) : calls[i].sent[j].reset)
            => k = Len(calls[i].sent) /\ ~calls[i].sent[k].body)

\* the consumer took the first message and stopped, the signal was aborted,
\* cleanup wrote the reset envelope, and the input sequence completed only
\* then: opening, body, reset, trailer
C14_Witness ==
    \E i \in Streams :
        /\ calls[i].aborted /\ calls[i].gen = "done" /\ calls[i].seqEnd = "return"
        /\ Len(calls[i].yielded) = 1
        /\ Len(calls[i].sent) = 4
        /\ calls[i].sent[2].body /\ calls[i].sent[3].reset
        /\ calls[i].sent[4] = TrailerEnvelope(calls[i].sent[4].ch)

\* the items that popSync() and pop() have returned, in the order returned
Items ==
    SelectSeq([k \in 1..Len(removed) |-> removed[k].item], LAMBDA x : x # 0)

IsPrefix(a, b) ==
    Len(a) <= Len(b) /\ a = SubSeq(b, 1, Len(a))

\* C15: a push calls the resolver of every nonEmpty() waiting on the queue,
\* in the order they registered, and leaves none registered; as long as no
\* item is taken from the queue the waiters complete in the order in which
\* they registered, and all of them have completed once the continuations
\* queued by the push have run.
C15_PushWakesAllInOrder ==
    /\ [][pushed' # pushed =>
            /\ notify' = << >>
            /\ micro' = micro \o [k \in 1..Len(notify) |->
                                    [job |-> "wake", c |-> notify[k]]]]_vars
    /\ [](Items = << >> => IsPrefix(order, regs))
    /\ [](( /\ Items = << >> /\ pushed > 0
            /\ \A k \in 1..Len(micro) : micro[k].job # "wake") => order = regs)

\* every consumer waited in nonEmpty() on the empty queue, one push woke
\* them all, and they completed in the order they registered
C15_Witness ==
    /\ pushed = 1 /\ Length = 1
    /\ Len(regs) = MaxConsumers /\ order = regs
    /\ \A c \in Consumers : \E k \in 1..Len(regs) : regs[k] = c

\* C16: every pop() that completes returns an item that was pushed, never
\* nothing, and no pushed item is returned twice.
C16_PopReturnsPushedItemOnce ==
    /\ \A k \in 1..Len(removed) :
          removed[k].via = "pop" => removed[k].item \in 1..pushed
    /\ \A k, l \in 1..Len(Items) : k # l => Items[k] # Items[l]

\* C17: with one consumer, the items returned by pop() and popSync() are the
\* items pushed, in the order pushed; length is the number of items pushed
\* minus the number returned; pop() never returns nothing; popSync() on an
\* empty queue returns nothing and leaves the queue as it is.
C17_Fifo ==
    /\ [](/\ Items = [k \in 1..Len(Items) |-> k]
          /\ q = [k \in 1..(pushed - Len(Items)) |-> Len(Items) + k]
          /\ Length = pushed - Len(Items)
          /\ \A k \in 1..Len(removed) : removed[k].via = "pop" => removed[k].item # 0)
    /\ [][(Len(removed') = Len(removed) + 1 /\ q = << >>)
            => /\ removed'[Len(removed')].item = 0
               /\ q' = q /\ notify' = notify /\ micro' = micro]_vars

\* three items pushed; pop() returned the first after waiting for it,
\* popSync() the second, and then the third
C17_Witness ==
    /\ pushed = 3 /\ Length = 0 /\ regs = << >>
    /\ Len(removed) = 3
    /\ removed[1] = [by |-> 1, via |-> "pop", item |-> 1]
    /\ removed[2] = [by |-> 1, via |-> "popSync", item |-> 2]
    /\ removed[3] = [by |-> 1, via |-> "popSync", item |-> 3]

C19_SingleReader ==
    readers[channel] <= 1

\* the messages of the body envelopes waiting in the response queue of c
C20_Queued(c) ==
    SelectSeq([k \in 1..Len(c.output) |->
                  IF c.output[k].err = "" THEN c.output[k].env.body ELSE 0],
              LAMBDA b : b # 0)

\* C20: the messages a streaming call has yielded are the first messages the
\* peer sent it, in the order sent, each once; until cleanup closes the
\* response queue, the messages sent and not yet yielded wait in the queue
\* in the order sent.
C20_YieldedInOrder ==
    \A i \in Streams :
        /\ calls[i].yielded = [k \in 1..Len(calls[i].yielded) |-> k]
        /\ Len(calls[i].yielded) <= calls[i].routed
        /\ ~calls[i].closed =>
              C20_Queued(calls[i]) =
                 [k \in 1..(calls[i].routed - Len(calls[i].yielded)) |->
                     Len(calls[i].yielded) + k]

\* the peer sent two messages and its trailer; the consumer received both
\* messages and the sequence ended
C20_Witness ==
    \E i \in Streams :
        /\ calls[i].routed = 2 /\ calls[i].yielded = <<1, 2>>
        /\ calls[i].gen = "done" /\ calls[i].seqEnd = "normal"

\* C21: the ids handed out are 0, 1, 2, ... in the order of the calls: every
\* id ever issued is below nextId, every key of outstanding is below nextId,
\* nextId never decreases (a reset leaves it alone), a call that starts takes
\* the id nextId, which no call had before, and no id changes hands.
C21_IdsIncreaseAndAreNeverReused ==
    /\ [](/\ Allocated = 0..(nextId - 1)
          /\ outstanding \subseteq 0..(nextId - 1))
    /\ [][/\ nextId' >= nextId
          /\ channel' # channel => nextId' = nextId
          /\ \A i \in Allocated :
                i \in Allocated' /\ calls'[i].kind = calls[i].kind
          /\ \A i \in (Allocated' \ Allocated) \cup (outstanding' \ outstanding) :
                i = nextId /\ i \notin Allocated /\ nextId' = nextId + 1]_vars

\* a unary call before a reset and a streaming call after it hold two ids
C21_Witness ==
    /\ nextId = 2 /\ channel = 1
    /\ Allocated = {0, 1}
    /\ calls[0].kind = "unary" /\ calls[0].sent # << >> /\ calls[0].sent[1].ch = 0
    /\ calls[1].kind = "stream" /\ calls[1].sent # << >> /\ calls[1].sent[1].ch = 1
    /\ outstanding = {1}

\* C22: when a read issued on a channel that reset() has replaced fails, the
\* failure is discarded: readError keeps its value, no call is rejected or
\* changed, outstanding keeps its keys, and the reader armed on the current
\* channel stays armed. Only the failed read is gone.
C22_StaleReadFailureChangesNothing ==
    [][\A ch \in Channels, reason \in ReadReasons :
          (ch # channel /\ ReadRejected(ch, reason)) =>
             /\ UNCHANGED <<channel, outstanding, nextId, readError, doneCalls,
                            calls, thrown>>
             /\ readers'[channel] = readers[channel]
             /\ readers' = [readers EXCEPT ![ch] = @ - 1]]_vars

\* after a reset the read of the old channel has failed, the reader of the
\* new channel is armed, and a call made since then is still waiting
C22_Witness ==
    /\ channel = 1 /\ readers[0] = 0 /\ readers[1] = 1
    /\ ~Truthy(readError)
    /\ \E i \in outstanding :
          /\ calls[i].sent[1].ch = 1
          /\ calls[i].promise.st = "pending" /\ calls[i].output = << >>

\* C23: when a read issued on a channel that reset() has replaced resolves,
\* its envelope reaches no call and no further read is issued: every call is
\* left as it was and only the resolved read is gone from the pending reads.
C23_StaleReadSuccessIsSilent ==
    [][\A ch \in Channels, id \in Ids, s \in UnaryShapes :
          (ch # channel /\ ReadResolved(ch, Envelope(id, Emitted(id, s), ch))) =>
             /\ calls' = calls
             /\ readers' = [readers EXCEPT ![ch] = @ - 1]]_vars

\* C24: in the step in which a call, unary or streaming, hands its first
\* envelope to channel.write, its id is a key of outstanding when the step
\* ends: no read can be handled between the registration and the write.
C24_RegisteredBeforeFirstWrite ==
    [][\A i \in Allocated' :
          (/\ calls'[i].sent # << >>
           /\ (i \in Allocated => calls[i].sent = << >>)) =>
             /\ i \in outstanding'
             /\ Len(calls'[i].sent) = 1
             /\ calls'[i].promise.st = "pending" /\ calls'[i].output = << >>]_vars

\* a unary call and a streaming call whose first writes are pending, both
\* registered
C24_Witness ==
    \E i \in Unaries, j \in Streams :
        /\ calls[i].pc = "write" /\ calls[j].pc = "open"
        /\ Len(calls[i].sent) = 1 /\ Len(calls[j].sent) = 1
        /\ {i, j} \subseteq outstanding

\* C25: a call whose driver has unwound is no key of outstanding: a unary
\* call once performUnary has settled its promise, a streaming call once its
\* opening write has failed or its response sequence has terminated.
C25_UnwoundCallsAreUnregistered ==
    \A i \in Allocated :
        (\/ calls[i].pc = "done"
         \/ calls[i].kind = "stream" /\ calls[i].gen = "done") =>
            i \notin outstanding

\* C26: an envelope read from the current channel whose id is no key of
\* outstanding is dropped: outstanding, readError and every call (what it
\* received and what it wrote) stay as they were, and the read that resolved
\* is replaced by a new read on the current channel.
C26_UnknownIdIsDropped ==
    [][\A id \in Ids \ outstanding, s \in PlainShapes :
          (/\ readers[channel] > 0
           /\ ReadResolved(channel, Envelope(id, Emitted(id, s), channel))) =>
             /\ UNCHANGED <<channel, outstanding, nextId, readError, doneCalls,
                            calls, thrown>>
             /\ readers'[channel] = readers[channel]]_vars

\* a call has finished and left outstanding while another one waits and the
\* reader is armed: an envelope for the finished call is read and dropped
C26_Witness ==
    /\ readers[channel] > 0
    /\ \E i \in Allocated, j \in outstanding :
          /\ i \notin outstanding /\ calls[i].pc = "done"
          /\ calls[i].outcome.st = "ok"
          /\ calls[j].promise.st = "pending" /\ calls[j].output = << >>

\* C27: a streaming call whose response sequence ended because the peer sent
\* a non-zero status has written a reset envelope, whether or not its upload
\* had written its trailer.
C27_StatusTerminationWritesReset ==
    \A i \in Streams :
        (calls[i].gen = "done" /\ calls[i].seqEnd = "status") => Rsts(calls[i]) >= 1

\* C27, amended: the step in which the response sequence ends on a non-zero
\* status of the peer runs cleanup, and cleanup writes one reset envelope
\* when the upload task has not completed its trailer write by then, and no
\* envelope at all when it has.
C27_StatusTerminationWritesResetUnlessUploadDone ==
    [][\A i \in Streams :
          (/\ calls[i].gen # "done"
           /\ calls'[i].gen = "done" /\ calls'[i].seqEnd = "status") =>
             /\ calls'[i].cleanups = calls[i].cleanups + 1
             /\ calls'[i].serverHasClosedStream
             /\ calls'[i].sent = IF calls[i].clientHasClosedStream
                                 THEN calls[i].sent
                                 ELSE Append(calls[i].sent, ResetEnvelope(channel))]_vars

\* the upload wrote its trailer, then the peer's non-zero status ended the
\* response sequence: cleanup ran and the last envelope written is the trailer
C27_Witness ==
    \E i \in Streams :
        /\ calls[i].gen = "done" /\ calls[i].seqEnd = "status"
        /\ calls[i].cleanups = 1
        /\ calls[i].clientHasClosedStream /\ calls[i].up = "done"
        /\ Rsts(calls[i]) = 0
        /\ calls[i].sent[Len(calls[i].sent)].trailer

\* the envelopes the opening step and the upload task of call c have written
C28_Upload(c) == SelectSeq(c.sent, LAMBDA w : ~w.reset)

\* C28: the opening step and the upload task of a streaming call write, in
\* this order, the opening envelope (initial header, no body, no trailer),
\* then one body envelope for each message of the input sequence, the k-th
\* envelope carrying the k-th message, then one trailer envelope at most,
\* which is the last envelope and is there once the input has completed.
\* Only the opening envelope is written while the opening write is pending.
\* Each later envelope is written by the upload task when its previous write
\* has completed and the input answers: a body when the input produces a
\* message, the trailer when it completes.
C28_UploadOrder ==
    /\ [](\A i \in Streams :
             LET U == C28_Upload(calls[i]) IN
             U # << >> =>
                /\ U[1] = [OpeningEnvelope(0) EXCEPT !.ch = U[1].ch]
                /\ \A k \in 2..Len(U) :
                      /\ U[k].header = "mid"
                      /\ U[k].body # U[k].trailer
                      /\ U[k].body => U[k].msg = k - 1
                      /\ U[k].trailer => k = Len(U)
                /\ calls[i].pc \in {"open", "done"} => Len(U) = 1
                /\ calls[i].up \in {"wtrailer", "done"} => U[Len(U)].trailer
                /\ calls[i].up \in {"next", "wbody"} => ~U[Len(U)].trailer)
    /\ [][\A i \in Streams :
             LET U == C28_Upload(calls[i])
                 V == C28_Upload(calls'[i])
             IN  V # U =>
                    /\ calls[i].pc = "active" /\ calls[i].up = "next"
                    /\ V = Append(U, V[Len(V)])
                    /\ calls'[i].up = IF V[Len(V)].trailer THEN "wtrailer" ELSE "wbody"]_vars

\* an upload of three messages has completed: opening envelope, the three
\* bodies in order, the trailer
C28_Witness ==
    \E i \in Streams :
        LET U == C28_Upload(calls[i]) IN
        /\ Len(U) = MaxUpload + 2
        /\ \A k \in 2..(MaxUpload + 1) : U[k].body /\ U[k].msg = k - 1
        /\ U[MaxUpload + 2].trailer
        /\ calls[i].up = "done" /\ calls[i].clientHasClosedStream

\* C29: the response generator, taking the item at the head of output:
\* an error item ends the sequence with that error; an envelope with a
\* non-zero status ends it with the status error and its body is not yielded;
\* an envelope with a body yields that one message, and when the generator is
\* resumed it ends the sequence normally if the envelope has a trailer too;
\* an envelope with a trailer and no body ends the sequence normally; an
\* envelope with none of these is skipped. serverHasClosedStream becomes true
\* in the status and trailer cases and in no other step.
C29_ConsumerHandlesEachItem ==
    [][\A i \in Streams :
          LET c == calls[i]
              d == calls'[i]
              h == Head(c.output)
              ends(how, closes) ==
                  /\ d.gen = "done" /\ d.seqEnd = how
                  /\ d.yielded = c.yielded
                  /\ d.serverHasClosedStream = (closes \/ c.serverHasClosedStream)
                  /\ d.cleanups = c.cleanups + 1
          IN  /\ (c.gen = "wait" /\ Len(d.output) < Len(c.output)) =>
                    IF h.err # "" THEN ends(h.err, FALSE)
                    ELSE IF NonZero(h.env.status) THEN ends("status", TRUE)
                    ELSE IF h.env.body # 0
                         THEN /\ d.gen = "yield"
                              /\ d.yielded = Append(c.yielded, h.env.body)
                              /\ d.output = Tail(c.output)
                              /\ d.serverHasClosedStream = c.serverHasClosedStream
                              /\ d.cleanups = c.cleanups
                    ELSE IF h.env.trailer THEN ends("normal", TRUE)
                    ELSE /\ d = [c EXCEPT !.output = Tail(c.output)]
                         /\ d.gen = "wait"
              /\ (c.gen = "yield" /\ d.gen # "yield" /\ d.seqEnd # "return") =>
                    IF c.cur.trailer THEN ends("normal", TRUE)
                    ELSE /\ d.gen = "wait" /\ d.yielded = c.yielded
                         /\ d.serverHasClosedStream = c.serverHasClosedStream
                         /\ d.cleanups = c.cleanups
              /\ (d.serverHasClosedStream /\ ~c.serverHasClosedStream) =>
                    /\ c.gen \in {"wait", "yield"}
                    /\ d.gen = "done" /\ d.seqEnd \in {"status", "normal"}]_vars

\* the consumer was given one message and then the status error of an
\* envelope that carried a body too: that body was routed and not yielded
C29_Witness ==
    \E i \in Streams :
        /\ calls[i].gen = "done" /\ calls[i].seqEnd = "status"
        /\ calls[i].routed = 2 /\ calls[i].yielded = <<1>>
        /\ calls[i].serverHasClosedStream

\* C30: a streaming call that got past the abort pre-check runs cleanup
\* never twice, and has run it once when the call has ended: when its
\* opening write has failed or its response sequence has terminated, also
\* when the consumer ended the sequence without having pulled from it.
C30_CleanupExactlyOnce ==
    \A i \in Streams :
        ~calls[i].preAborted =>
            /\ calls[i].cleanups <= 1
            /\ (calls[i].pc = "done" \/ calls[i].gen = "done") => calls[i].cleanups = 1

\* C31: a unary call writes one envelope at most in its whole life, whatever
\* its outcome: the request written when the call starts, which carries the
\* full header, a body and a trailer and no reset. Nothing is written for the
\* call after that, and no envelope with a reset field is ever written for it.
C31_UnaryWritesOneEnvelope ==
    /\ [](\A i \in Unaries :
             /\ Len(calls[i].sent) <= 1
             /\ \A k \in 1..Len(calls[i].sent) :
                   LET w == calls[i].sent[k] IN
                   /\ w.header = "full" /\ w.body /\ w.trailer /\ ~w.reset
                   /\ w = UnaryRequest(w.ch)
             /\ calls[i].preAborted => calls[i].sent = << >>)
    /\ [][\A i \in Unaries : calls'[i].sent = calls[i].sent]_vars

\* two unary calls have ended, one by the abort of its signal after its
\* request was written, one by a reset: each wrote its request and no more
C31_Witness ==
    \E i, j \in Unaries :
        /\ calls[i].pc = "done" /\ calls[j].pc = "done"
        /\ ~calls[i].preAborted /\ calls[i].aborted
        /\ calls[i].outcome = Failed(AbortReason)
        /\ calls[j].resetWith # "none"
        /\ calls[j].outcome = Failed(ReasonOrDefault(calls[j].resetWith))
        /\ Len(calls[i].sent) = 1 /\ Len(calls[j].sent) = 1

\* C32: when the request write of a unary call fails, that call fails with
\* the write error and its id leaves outstanding, and nothing else changes:
\* readError keeps its value, every other call and every other key of
\* outstanding is untouched, the pending reads stay pending, so a call made
\* afterwards is accepted exactly as it would have been before.
C32_WriteFailureIsLocal ==
    [][\A i \in Unaries :
          (calls[i].pc = "write" /\ calls'[i].pc = "done") =>
             /\ calls'[i].outcome = Failed(WriteError)
             /\ outstanding' = outstanding \ {i}
             /\ i \notin outstanding'
             /\ \A j \in Allocated \ {i} : calls'[j] = calls[j]
             /\ UNCHANGED <<channel, nextId, readError, readers, doneCalls, thrown>>]_vars

\* the write of one call has failed while no read error is latched, the
\* reader is armed, and another call is registered and waiting
C32_Witness ==
    \E i \in Unaries, j \in outstanding :
        /\ calls[i].pc = "done" /\ calls[i].outcome = Failed(WriteError)
        /\ i < j /\ calls[j].promise.st = "pending" /\ calls[j].output = << >>
        /\ ~Truthy(readError) /\ readers[channel] > 0

\* C33: nonEmpty() never removes or reorders items: the queue changes only
\* in a push or in a removal by popSync()/pop(). Called on a non-empty queue
\* it completes at once, registering no resolver; called on an empty queue it
\* registers one. A waiter of nonEmpty() that a push has woken and that finds
\* the queue empty again does not complete: it registers its resolver again,
\* so that it is always either registered or about to resume, and the next
\* push queues the resumption of every registered waiter.
C33_NonEmptyWaitsAgain ==
    /\ [](\A c \in Consumers :
             cons[c].op = "nonEmpty" =>
                \/ \E k \in 1..Len(notify) : notify[k] = c
                \/ \E k \in 1..Len(micro) : micro[k] = Wake(c))
    /\ [][/\ (pushed' = pushed /\ removed' = removed) => q' = q
          /\ \A c \in Consumers :
                /\ (/\ cons[c].op = "idle" /\ cons'[c].op # "pop"
                    /\ cons'[c].ops = cons[c].ops + 1 /\ removed' = removed) =>
                       IF Length > 0
                       THEN cons'[c].op = "idle" /\ notify' = notify /\ micro' = micro
                       ELSE cons'[c].op = "nonEmpty" /\ notify' = Append(notify, c)
                /\ (/\ cons[c].op = "nonEmpty" /\ micro # << >>
                    /\ Head(micro) = Wake(c) /\ Len(micro') < Len(micro)) =>
                       IF Length = 0
                       THEN /\ cons'[c].op = "nonEmpty" /\ order' = order
                            /\ notify' = Append(notify, c)
                       ELSE /\ cons'[c].op = "idle" /\ order' = Append(order, c)
                            /\ notify' = notify
          /\ pushed' # pushed =>
                \A k \in 1..Len(notify) : micro'[Len(micro) + k] = Wake(notify[k])]_vars

\* one consumer waited in nonEmpty(), the other took the first item with
\* popSync(), and the waiter completed on the second push only
C33_Witness ==
    \E c, d \in Consumers :
        /\ c # d /\ pushed = 2 /\ q = <<2>>
        /\ regs = <<c>> /\ order = <<c>> /\ cons[c].ops = 1 /\ cons[c].op = "idle"
        /\ removed = <<[by |-> d, via |-> "popSync", item |-> 1]>>

\* C34: every envelope that carries the id of a call is written to the
\* channel the call was started on: after a reset, neither the cleanup of a
\* call started before it nor that call's upload task writes to the new
\* channel.
C34_NoEnvelopeOfOldCallOnNewChannel ==
    \A i \in Allocated :
        \A k \in 1..Len(calls[i].sent) : calls[i].sent[k].ch = calls[i].sent[1].ch

\* C35: the reset envelope that cleanup writes for a streaming call is the
\* last envelope written with that call's id: the upload task writes no body
\* and no trailer after it.
C35_ResetIsLastEnvelope ==
    \A i \in Streams :
        \A k \in 1..Len(calls[i].sent) :
            calls[i].sent[k].reset => k = Len(calls[i].sent)

\* C36: whenever a call is registered in outstanding, a read is pending on
\* the current channel, so that a response or a read failure can reach the
\* call; after a read of the current channel has failed, whatever the
\* rejection value, no call is registered before the next reset.
C36_RegisteredCallsHaveAReader ==
    outstanding # {} => readers[channel] > 0

\* C37: an invocation of unary() or stream() that is refused because a read
\* error is latched throws and changes nothing in the transport: nextId,
\* outstanding, the calls (their listeners and what they wrote), the channel
\* and the pending reads stay as they were; and while a read error is
\* latched no invocation takes an id.
C37_RefusalChangesNothing ==
    [][/\ thrown' # thrown =>
             /\ Truthy(readError)
             /\ thrown' = readError
             /\ UNCHANGED <<channel, outstanding, nextId, readError, readers,
                            doneCalls, calls>>
       /\ nextId' # nextId => ~Truthy(readError)]_vars

\* a call was rejected by a read failure, and the invocation after it was
\* refused: one id taken, nothing registered
C37_Witness ==
    /\ Truthy(readError) /\ thrown = readError
    /\ nextId = 1 /\ outstanding = {}
    /\ calls[0].promise = [st |-> "rejected", env |-> NoEnv, reason |-> readError]
    /\ Len(calls[0].sent) = 1

\* what performUnary returns or throws for a settled rpcPromise
C38_FromPromise(p) ==
    IF p.st = "rejected" THEN Failed(p.reason) ELSE MapResponse(p.env)

\* the first event that reaches a unary call settles its promise, and no
\* later response, abort, read failure or reset changes the promise, changes
\* the outcome of a call that has ended, or puts its id back in outstanding
C38_OneShot ==
    [][\A i \in Unaries :
          /\ calls[i].promise.st # "pending" => calls'[i].promise = calls[i].promise
          /\ calls[i].pc = "done" => calls'[i] = calls[i]
          /\ i \notin outstanding => i \notin outstanding']_vars

\* C38: the outcome of every unary call that an event has reached is the
\* one that the first event fixed, and later events change nothing.
C38_FirstEventFixesOutcome ==
    /\ [](\A i \in Unaries :
             (calls[i].pc = "done" /\ calls[i].promise.st # "pending") =>
                calls[i].outcome = C38_FromPromise(calls[i].promise))
    /\ C38_OneShot

\* C38, amended: the same for every unary call whose request write has not
\* failed; a call whose write fails ends with the write error, also when a
\* response, an abort, a read failure or a reset had reached it before.
C38_FirstEventFixesOutcomeUnlessWriteFails ==
    /\ [](\A i \in Unaries :
             (calls[i].pc = "done" /\ calls[i].promise.st # "pending") =>
                calls[i].outcome \in {C38_FromPromise(calls[i].promise), Failed(WriteError)})
    /\ [][\A i \in Unaries :
             (calls[i].pc = "await" /\ calls'[i].pc = "done") =>
                calls'[i].outcome = C38_FromPromise(calls[i].promise)]_vars
    /\ C38_OneShot

\* the response reached the call first, its signal was aborted before the
\* call returned, and the call returned the response
C38_Witness ==
    \E i \in Unaries :
        /\ calls[i].pc = "done" /\ calls[i].promise.st = "resolved"
        /\ calls[i].aborted /\ ~calls[i].preAborted
        /\ calls[i].outcome.st = "ok" /\ i \notin outstanding

\* C39: a unary call whose request write has completed and which one of the
\* events has reached ends: a reset, the abort of its signal and a read
\* failure on the current channel each settle the pending promise of every
\* call they reach, as does an envelope with the call's id; and a call that
\* awaits a settled promise eventually returns or throws, its id out of
\* outstanding.
C39_UnaryCallsEnd ==
    /\ [][\A i \in Unaries :
             (/\ i \in outstanding /\ calls[i].promise.st = "pending"
              /\ \/ channel' # channel
                 \/ calls'[i].aborted /\ ~calls[i].aborted
                 \/ channel' = channel /\ readers'[channel] < readers[channel]
                 \/ \E ch \in Channels, s \in UnaryShapes :
                       ReadResolved(ch, Envelope(i, Emitted(i, s), ch)))
             => calls'[i].promise.st # "pending"]_vars
    /\ \A i \in Ids :
          (i \in Unaries /\ calls[i].pc = "await" /\ calls[i].promise.st # "pending")
             ~> (i \in Unaries /\ calls[i].pc = "done" /\ i \notin outstanding)

\* a call that a read failure reached after its write had completed has ended
C39_Witness ==
    \E i \in Unaries :
        /\ calls[i].pc = "done" /\ i \notin outstanding
        /\ Truthy(readError) /\ calls[i].outcome = Failed(readError)
        /\ calls[i].promise = [st |-> "rejected", env |-> NoEnv, reason |-> readError]

\* C40: once the signal of a streaming call has been aborted while the call
\* ran, the consumer is given no further message, and the response sequence
\* ends with nothing but the abort error.
C40_NoMessageAfterAbort ==
    [][\A i \in Streams :
          (calls[i].aborted /\ ~calls[i].preAborted) =>
             /\ calls'[i].yielded = calls[i].yielded
             /\ (calls[i].gen # "done" /\ calls'[i].gen = "done")
                   => calls'[i].seqEnd \in {AbortReason, "return"}]_vars

\* C40, amended: the abort of the signal appends the abort error to the
\* response queue behind the items that are already there, and changes
\* nothing else; a message yielded after the abort comes from an envelope
\* that was queued in front of the abort error; and when the consumer
\* reaches the abort error the sequence ends with it, yielding nothing more
\* and dropping what was queued behind it.
C40_AbortErrorIsQueuedLast ==
    [][\A i \in Streams :
          LET c == calls[i]
              d == calls'[i]
          IN  /\ (~c.aborted /\ d.aborted) =>
                    d = [c EXCEPT !.aborted = TRUE,
                                  !.output = IF c.closed THEN c.output
                                             ELSE Append(c.output, Item(AbortReason, NoEnv))]
              /\ (c.aborted /\ ~c.preAborted /\ d.yielded # c.yielded) =>
                    /\ c.gen = "wait" /\ Head(c.output).err = ""
                    /\ d.yielded = Append(c.yielded, Head(c.output).env.body)
                    /\ \E k \in 2..Len(c.output) : c.output[k].err = AbortReason
              /\ (/\ c.gen = "wait" /\ Len(d.output) < Len(c.output)
                  /\ Head(c.output).err = AbortReason) =>
                    /\ d.gen = "done" /\ d.seqEnd = AbortReason
                    /\ d.yielded = c.yielded /\ d.output = << >>]_vars

\* the signal was aborted while a body envelope was waiting in the response
\* queue: the consumer, asking for its next item, is about to get the message
C40_Witness ==
    \E i \in Streams :
        /\ calls[i].aborted /\ ~calls[i].preAborted
        /\ calls[i].gen = "wait" /\ Len(calls[i].output) = 2
        /\ calls[i].output[1].err = "" /\ calls[i].output[1].env.body # 0
        /\ calls[i].output[2] = Item(AbortReason, NoEnv)

====
